---------------------------- MODULE Spec2Model ----------------------------
(***************************************************************************)
(* Sequential Bayesian updating of a density sampled on a grid, as the     *)
(* notebook 10_bayes/prior_posterior_distribution_example.ipynb computes   *)
(* it: posterior = previous * likelihood, then an in-place division by     *)
(* np.trapezoid(posterior, ecs_values); then the summary statistics and   *)
(* the tail probability above a threshold.                                 *)
(*                                                                         *)
(* Numbers.  A number is a pair <<n, d>>: the rational n/d in lowest terms *)
(* with d > 0, or one of the IEEE specials NaN = <<0,0>>, +inf = <<1,0>>,  *)
(* -inf = <<-1,0>>.  The notebook computes in binary floating point: every *)
(* numpy operation returns the exact result rounded to nearest, ties to    *)
(* even.  The model keeps that rule with a mantissa of Prec bits (the      *)
(* program's is 53) and an unbounded exponent.  The variable arith selects *)
(* the arithmetic of a run: "float" is the program's, "exact" is the       *)
(* idealised real arithmetic that the specification's statements "under    *)
(* exact arithmetic" speak about (rounding is then the identity).          *)
(***************************************************************************)
EXTENDS Integers, Sequences, FiniteSets, TLC

VARIABLES arith, ecs_values, prior_pdf, liks, posts, area, pc, err, tails, mean, median,
          interval, threshold, probability, warned,
          st, stm, stm_linear,
          ds, sst, nan_mask, djf, sample, fitted, predicted

\* the variables of the Bayes notebook, of the gap filling of the synthetic
\* series and of the SST field reconstruction (pc, err and arith are shared)
bayes_vars == <<ecs_values, prior_pdf, liks, posts, area, tails, mean, median,
                interval, threshold, probability, warned>>

gap_vars == <<st, stm, stm_linear>>

field_vars == <<ds, sst, nan_mask, djf, sample, fitted, predicted>>

vars == <<arith, pc, err, bayes_vars, gap_vars, field_vars>>

\* a notebook that is not the one running has defined none of its variables
BayesUnset ==
    /\ ecs_values = <<>> /\ prior_pdf = <<>> /\ liks = <<>> /\ posts = <<>>
    /\ area = <<>> /\ tails = <<>> /\ mean = <<>> /\ median = <<>>
    /\ interval = <<>> /\ threshold = <<>> /\ probability = <<>> /\ warned = {}

GapUnset == st = <<>> /\ stm = <<>> /\ stm_linear = <<>>

FieldUnset ==
    /\ ds = <<>> /\ sst = <<>> /\ nan_mask = <<>> /\ djf = <<>>
    /\ sample = <<>> /\ fitted = <<>> /\ predicted = <<>>

\* Bits of mantissa of the modelled floating point format.
Prec == 8

\* Largest number of likelihoods applied in one run.
MaxLik == 2

------------------------------------------------------------------------------
\* Rational and IEEE-special numbers

NaN == <<0, 0>>

PInf == <<1, 0>>

Zero == <<0, 1>>

One == <<1, 1>>

Two == <<2, 1>>

Abs(n) == IF n < 0 THEN -n ELSE n

Sgn(n) == IF n < 0 THEN -1 ELSE IF n > 0 THEN 1 ELSE 0

RECURSIVE GCD(_, _)
GCD(a, b) == IF b = 0 THEN a ELSE GCD(b, a % b)

RECURSIVE Pow2(_)
Pow2(k) == IF k = 0 THEN 1 ELSE 2 * Pow2(k - 1)

\* n/d in lowest terms, d > 0 given
Reduce(n, d) ==
    LET g == GCD(Abs(n), d) IN <<n \div g, d \div g>>

Whole(n) == <<n, 1>>

IsNaN(a) == a = NaN

IsFinite(a) == a[2] # 0

\* exact a + b, with the IEEE rules for the specials
RAdd(a, b) ==
    IF IsNaN(a) \/ IsNaN(b) THEN NaN
    ELSE IF ~IsFinite(a) /\ ~IsFinite(b) THEN (IF a = b THEN a ELSE NaN)
    ELSE IF ~IsFinite(a) THEN a
    ELSE IF ~IsFinite(b) THEN b
    ELSE Reduce(a[1] * b[2] + b[1] * a[2], a[2] * b[2])

RNeg(a) == <<-a[1], a[2]>>

RSub(a, b) == RAdd(a, RNeg(b))

\* exact a * b
RMul(a, b) ==
    IF IsNaN(a) \/ IsNaN(b) THEN NaN
    ELSE IF ~IsFinite(a) \/ ~IsFinite(b)
         THEN (IF a[1] = 0 \/ b[1] = 0 THEN NaN ELSE <<Sgn(a[1]) * Sgn(b[1]), 0>>)
    ELSE Reduce(a[1] * b[1], a[2] * b[2])

\* exact a / b; x/0 is +-inf, 0/0 is NaN (numpy warns and goes on)
RDiv(a, b) ==
    IF IsNaN(a) \/ IsNaN(b) THEN NaN
    ELSE IF ~IsFinite(a)
         THEN (IF ~IsFinite(b) THEN NaN
               ELSE <<a[1] * (IF b[1] < 0 THEN -1 ELSE 1), 0>>)
    ELSE IF ~IsFinite(b) THEN Zero
    ELSE IF b[1] = 0 THEN <<Sgn(a[1]), 0>>
    ELSE Reduce(a[1] * b[2] * Sgn(b[1]), a[2] * Abs(b[1]))

\* a < b (false when either is NaN)
RLess(a, b) == a[1] * b[2] < b[1] * a[2]

------------------------------------------------------------------------------
\* Rounding to Prec significant bits, nearest, ties to even

\* mantissas are the integers MantMin .. MantMax - 1
MantMax == Pow2(Prec)

MantMin == Pow2(Prec - 1)

\* <<num, den, e>> with n/d = (num/den) * 2^e and MantMin <= num/den < MantMax
RECURSIVE Scale(_, _, _)
Scale(num, den, e) ==
    IF num >= MantMax * den THEN Scale(num, 2 * den, e + 1)
    ELSE IF num < MantMin * den THEN Scale(2 * num, den, e - 1)
    ELSE <<num, den, e>>

\* the float nearest to n/d, for n > 0 and d > 0
RoundPos(n, d) ==
    LET s  == Scale(n, d, 0)
        m0 == s[1] \div s[2]
        r  == s[1] % s[2]
        m  == IF 2 * r > s[2] \/ (2 * r = s[2] /\ m0 % 2 = 1) THEN m0 + 1 ELSE m0
    IN IF s[3] >= 0 THEN <<m * Pow2(s[3]), 1>> ELSE Reduce(m, Pow2(-s[3]))

RoundNearest(a) ==
    IF ~IsFinite(a) \/ a[1] = 0 THEN a
    ELSE LET p == RoundPos(Abs(a[1]), a[2]) IN <<Sgn(a[1]) * p[1], p[2]>>

\* the result of one arithmetic operation as the run's arithmetic returns it
Fl(a) == IF arith = "float" THEN RoundNearest(a) ELSE a

FAdd(a, b) == Fl(RAdd(a, b))

FSub(a, b) == Fl(RSub(a, b))

FMul(a, b) == Fl(RMul(a, b))

FDiv(a, b) == Fl(RDiv(a, b))

------------------------------------------------------------------------------
\* numpy arrays: sequences of numbers, with numpy's broadcasting of length 1

\* two one-dimensional shapes broadcast when equal or when one of them is 1
Broadcastable(la, lb) == la = lb \/ la = 1 \/ lb = 1

BroadcastLen(la, lb) == IF la = 1 THEN lb ELSE la

Elem(a, i) == IF Len(a) = 1 THEN a[1] ELSE a[i]

\* a * b elementwise (line 190: prior_pdf * volcanic_pdf)
MulArr(a, b) ==
    [i \in 1..BroadcastLen(Len(a), Len(b)) |-> FMul(Elem(a, i), Elem(b, i))]

\* mutant of DivArr: the in-place statement multiplies (*=) instead of dividing
DivArr_Times(a, c) == [i \in 1..Len(a) |-> FMul(a[i], c)]

\* a / c elementwise for a scalar c (line 191: posterior_1 /= ...)
DivArr(a, c) == [i \in 1..Len(a) |-> FDiv(a[i], c)]

\* whether a / c raises a floating-point flag, which numpy reports as a
\* RuntimeWarning and goes on: x/0 for a finite x ("divide by zero", or
\* "invalid value" for 0/0) and inf/inf ("invalid value")
DivWarns(a, c) ==
    \E i \in 1..Len(a) :
        \/ c = Zero /\ IsFinite(a[i])
        \/ ~IsFinite(a[i]) /\ ~IsNaN(a[i]) /\ ~IsFinite(c) /\ ~IsNaN(c)

\* mutant of From: the slice starts one element early, a[k-1:]
From_OneEarly(a, k) ==
    IF k = 0 THEN (IF Len(a) = 0 THEN <<>> ELSE <<a[Len(a)]>>)
    ELSE IF k - 1 >= Len(a) THEN <<>> ELSE SubSeq(a, k, Len(a))

\* the slice a[k:] for a 0-based k >= 0 (empty when k >= len(a))
From(a, k) == IF k >= Len(a) THEN <<>> ELSE SubSeq(a, k + 1, Len(a))

\* the length of np.diff(a), of a[1:] and of a[:-1] for an array of length n
DiffLen(n) == IF n = 0 THEN 0 ELSE n - 1

\* np.diff(x)
Diff(x) == [i \in 1..DiffLen(Len(x)) |-> FSub(x[i + 1], x[i])]

\* np.sum / add.reduce of a short array: left to right, 0.0 when empty
RECURSIVE SumTo(_, _)
SumTo(a, k) ==
    IF k = 0 THEN Zero
    ELSE IF k = 1 THEN a[1]
    ELSE FAdd(SumTo(a, k - 1), a[k])

Sum(a) == SumTo(a, Len(a))

\* mutant of trapezoid: the division by 2.0 is left out
trapezoid_NoHalf(y, x) ==
    LET d == Diff(x)
        s == [i \in 1..DiffLen(Len(y)) |-> FAdd(y[i + 1], y[i])]
        n == IF Len(d) = 0 \/ Len(s) = 0 THEN 0 ELSE BroadcastLen(Len(d), Len(s))
        t == [i \in 1..n |-> FMul(Elem(d, i), Elem(s, i))]
    IN Sum(t)

\* whether np.trapezoid(y, x) can form d * (y[1:] + y[:-1])
TrapezoidShapesOk(y, x) == Broadcastable(DiffLen(Len(x)), DiffLen(Len(y)))

\* np.trapezoid(y, x) = (diff(x) * (y[1:] + y[:-1]) / 2.0).sum()
trapezoid(y, x) ==
    LET d == Diff(x)
        s == [i \in 1..DiffLen(Len(y)) |-> FAdd(y[i + 1], y[i])]
        n == IF Len(d) = 0 \/ Len(s) = 0 THEN 0 ELSE BroadcastLen(Len(d), Len(s))
        t == [i \in 1..n |-> FDiv(FMul(Elem(d, i), Elem(s, i)), Two)]
    IN Sum(t)

\* mutant of normalize: the division is left out
normalize_Skipped(density, grid) == density

\* mutant of normalize: divides by np.sum(density) instead of the integral
normalize_BySum(density, grid) == DivArr(density, Sum(density))

\* the normalization statement: density /= np.trapezoid(density, grid)
normalize(density, grid) == DivArr(density, trapezoid(density, grid))

\* one update: product, then normalization (lines 190-191, 208-209, ...)
update(current, likelihood, grid) == normalize(MulArr(current, likelihood), grid)

\* mutant of MeanDiff: divides by the number of grid points
MeanDiff_ByPoints(grid) == FDiv(Sum(Diff(grid)), Whole(Len(grid)))

\* np.diff(grid).mean(): the sum of the differences divided by their number
MeanDiff(grid) == FDiv(Sum(Diff(grid)), Whole(Len(grid) - 1))

\* mutant of CumSum: the elements themselves, nothing accumulated
CumSum_Plain(a) == a

\* np.cumsum(a): the running sums, left to right
CumSum(a) == [i \in 1..Len(a) |-> SumTo(a, i)]

\* mutant of Cumulative: the running sums are not scaled by the spacing
Cumulative_Unscaled(density, grid) == CumSum(density)

\* cumulative = np.cumsum(density) * np.diff(grid).mean()  (line 261)
Cumulative(density, grid) ==
    LET c == CumSum(density)
        h == MeanDiff(grid)
    IN [i \in 1..Len(c) |-> FMul(c[i], h)]

\* mutant of NpLess: "less or equal", which turns the search into side='right'
NpLess_OrEqual(a, b) ==
    (~IsNaN(a) /\ ~IsNaN(b) /\ a[1] * b[2] <= b[1] * a[2]) \/ (IsNaN(b) /\ ~IsNaN(a))

\* numpy's order on floats: NaN sorts after every number
NpLess(a, b) == RLess(a, b) \/ (IsNaN(b) /\ ~IsNaN(a))

\* np.searchsorted(a, v), side left: binary search over the 0-based [lo, hi)
RECURSIVE BinSearch(_, _, _, _)
BinSearch(a, v, lo, hi) ==
    IF lo < hi
    THEN LET mid == lo + ((hi - lo) \div 2) IN
         IF NpLess(a[mid + 1], v) THEN BinSearch(a, v, mid + 1, hi)
         ELSE BinSearch(a, v, lo, mid)
    ELSE lo

searchsorted(a, v) == BinSearch(a, Fl(v), 0, Len(a))

\* mutant of Mean: the sum is not multiplied by the spacing
Mean_NoSpacing(density, grid) == Sum(MulArr(grid, density))

\* np.sum(grid * density) * np.diff(grid).mean()  (line 258)
Mean(density, grid) == FMul(Sum(MulArr(grid, density)), MeanDiff(grid))

\* mutant of uniform_density: one over the number of grid points
uniform_density_ByPoints(grid) == FDiv(One, Whole(Len(grid)))

\* uniform_density = 1 / (ecs_values[-1] - ecs_values[0])  (line 315)
uniform_density(grid) == FDiv(One, FSub(grid[Len(grid)], grid[1]))

\* np.full_like(ecs_values, uniform_density)  (line 316)
uniform_prior_pdf(grid) == [i \in 1..Len(grid) |-> uniform_density(grid)]

------------------------------------------------------------------------------
\* Inputs

Vals == {Whole(0), Whole(1), Whole(2)}

Grids == { <<Whole(0), Whole(1), Whole(2)>>,
           <<Whole(0), Whole(1), Whole(3)>>,
           <<Whole(0), Whole(2)>>,
           <<Whole(0), Whole(1), Whole(2), Whole(7)>> }

Priors == [1..3 -> Vals] \cup { <<Whole(1), Whole(2)>> }

Likelihoods == { <<Whole(1), Whole(2), Whole(1)>>,
                 <<Whole(2), Whole(1), Whole(0)>>,
                 <<Whole(0), Whole(0), Whole(1)>>,
                 <<Whole(1), Whole(2)>>,
                 <<Whole(2)>>,
                 <<Whole(0), Whole(0), Whole(0), Whole(1)>> }

\* <<lowerTail, upperTail>>: the notebook's (0.025, 0.975), the full range, and
\* arguments that are reversed or outside [0, 1]
TailPairs == { <<<<1, 40>>, <<39, 40>>>>,
               <<<<0, 1>>, <<1, 1>>>>,
               <<<<39, 40>>, <<1, 40>>>>,
               <<<<-1, 2>>, <<3, 2>>>> }

\* thresholds of the tail probability: below the grid, above it, and two
\* values that are an inner grid point of some of the grids, lie between two
\* points of others and are the last point of others
Thresholds == { <<-1, 1>>, <<1, 1>>, <<2, 1>>, <<11, 1>> }

------------------------------------------------------------------------------
\* The notebook as a state machine

\* mutant of Init: the run starts with the normalized prior as its first element
Init_Seeded ==
    /\ arith \in {"exact", "float"}
    /\ ecs_values \in Grids
    /\ prior_pdf \in Priors \cup {uniform_prior_pdf(ecs_values)}
    /\ liks = <<>>
    /\ TrapezoidShapesOk(prior_pdf, ecs_values)
    /\ posts = <<normalize(prior_pdf, ecs_values)>>
    /\ area = <<trapezoid(prior_pdf, ecs_values)>>
    /\ pc = "multiply"
    /\ err = "none"
    /\ tails = <<>>
    /\ mean = <<>>
    /\ median = <<>>
    /\ interval = <<>>
    /\ threshold = <<>>
    /\ probability = <<>>
    /\ warned = {}
    /\ GapUnset /\ FieldUnset

Init ==
    /\ arith \in {"exact", "float"}
    /\ ecs_values \in Grids
    /\ prior_pdf \in Priors \cup {uniform_prior_pdf(ecs_values)}
    /\ liks = <<>>
    /\ posts = <<>>
    /\ area = <<>>
    /\ pc = "multiply"
    /\ err = "none"
    /\ tails = <<>>
    /\ mean = <<>>
    /\ median = <<>>
    /\ interval = <<>>
    /\ threshold = <<>>
    /\ probability = <<>>
    /\ warned = {}
    /\ GapUnset /\ FieldUnset

\* mutant of Current: every step multiplies the prior again
Current_AlwaysPrior == prior_pdf

\* the array the next likelihood multiplies: the prior, then the last posterior
Current == IF posts = <<>> THEN prior_pdf ELSE posts[Len(posts)]

\* mutant of Multiply: the likelihood is consumed but its update step is skipped
Multiply_Skip(L) ==
    /\ pc = "multiply"
    /\ Len(posts) < MaxLik
    /\ Len(liks) < MaxLik
    /\ liks' = Append(liks, L)
    /\ UNCHANGED <<gap_vars, field_vars>>
    /\ UNCHANGED <<arith, ecs_values, prior_pdf, posts, area, pc, err, tails, mean, median,
                   interval, threshold, probability, warned>>

\* mutant of Multiply: the product is written into the array of the previous
\* posterior (posterior_1 *= lgm_pdf; posterior_2 = posterior_1), not a new one
Multiply_InPlace(L) ==
    /\ pc = "multiply"
    /\ Len(posts) < MaxLik
    /\ liks' = Append(liks, L)
    /\ IF Broadcastable(Len(Current), Len(L))
       THEN /\ posts' = Append([j \in 1..Len(posts) |->
                                   IF j = Len(posts) THEN MulArr(Current, L) ELSE posts[j]],
                               MulArr(Current, L))
            /\ pc' = "normalize"
            /\ err' = err
       ELSE /\ posts' = posts
            /\ pc' = "error"
            /\ err' = "ValueError"
    /\ UNCHANGED <<gap_vars, field_vars>>
    /\ UNCHANGED <<arith, ecs_values, prior_pdf, area, tails, mean, median, interval,
                   threshold, probability, warned>>

\* posterior_k = posterior_{k-1} * likelihood_k  (lines 190, 208, 212, 216)
Multiply(L) ==
    /\ pc = "multiply"
    /\ Len(posts) < MaxLik
    /\ liks' = Append(liks, L)
    /\ IF Broadcastable(Len(Current), Len(L))
       THEN /\ posts' = Append(posts, MulArr(Current, L))
            /\ pc' = "normalize"
            /\ err' = err
       ELSE /\ posts' = posts
            /\ pc' = "error"
            /\ err' = "ValueError"
    /\ UNCHANGED <<gap_vars, field_vars>>
    /\ UNCHANGED <<arith, ecs_values, prior_pdf, area, tails, mean, median, interval,
                   threshold, probability, warned>>

\* posterior_k /= np.trapezoid(posterior_k, ecs_values)  (lines 191, 209, 213, 217)
NormalizeStep ==
    /\ pc = "normalize"
    /\ LET k == Len(posts) IN
       IF TrapezoidShapesOk(posts[k], ecs_values)
       THEN /\ area' = Append(area, trapezoid(posts[k], ecs_values))
            /\ posts' = [posts EXCEPT ![k] = normalize(posts[k], ecs_values)]
            /\ warned' = IF DivWarns(posts[k], trapezoid(posts[k], ecs_values))
                          THEN warned \cup {"RuntimeWarning"} ELSE warned
            /\ pc' = "multiply"
            /\ err' = err
       ELSE /\ area' = area
            /\ posts' = posts
            /\ warned' = warned
            /\ pc' = "error"
            /\ err' = "ValueError"
    /\ UNCHANGED <<gap_vars, field_vars>>
    /\ UNCHANGED <<arith, ecs_values, prior_pdf, liks, tails, mean, median, interval,
                   threshold, probability>>

\* the summary cell (lines 257-269) on the last posterior, with the two tails
\* of the credible interval as its arguments (the notebook's are 0.025, 0.975)
Summarize(lowerTail, upperTail) ==
    /\ pc = "multiply"
    /\ posts # <<>>
    /\ tails' = <<lowerTail, upperTail>>
    /\ LET final == posts[Len(posts)]
           cumulative == Cumulative(final, ecs_values)
           iMed == searchsorted(cumulative, <<1, 2>>)
           iLow == searchsorted(cumulative, lowerTail)
           iUpp == searchsorted(cumulative, upperTail)
           n == Len(ecs_values)
       IN IF ~Broadcastable(Len(ecs_values), Len(final))
          THEN /\ err' = "ValueError"
               /\ pc' = "error"
               /\ UNCHANGED <<mean, median, interval>>
          ELSE IF iMed >= n
          THEN /\ err' = "IndexError"
               /\ pc' = "error"
               /\ mean' = Mean(final, ecs_values)
               /\ UNCHANGED <<median, interval>>
          ELSE IF iLow >= n \/ iUpp >= n
          THEN /\ err' = "IndexError"
               /\ pc' = "error"
               /\ mean' = Mean(final, ecs_values)
               /\ median' = ecs_values[iMed + 1]
               /\ UNCHANGED interval
          ELSE /\ err' = err
               /\ pc' = "done"
               /\ mean' = Mean(final, ecs_values)
               /\ median' = ecs_values[iMed + 1]
               /\ interval' = <<ecs_values[iLow + 1], ecs_values[iUpp + 1]>>
    /\ UNCHANGED <<gap_vars, field_vars>>
    /\ UNCHANGED <<arith, ecs_values, prior_pdf, liks, posts, area, threshold,
                   probability, warned>>

\* the tail-probability cell (lines 285-286) on the last posterior, with the
\* threshold as its argument (the notebook's is 4.5).  The cell reads only the
\* grid and the last posterior, as the summary cell does, and neither reads
\* what the other wrote: a run ends with one of the two.
TailProbability(t) ==
    /\ pc = "multiply"
    /\ posts # <<>>
    /\ threshold' = t
    /\ LET final == posts[Len(posts)]
           threshold_index == searchsorted(ecs_values, t)
           y == From(final, threshold_index)
           x == From(ecs_values, threshold_index)
       IN IF TrapezoidShapesOk(y, x)
          THEN /\ probability' = trapezoid(y, x)
               /\ pc' = "done"
               /\ err' = err
          ELSE /\ probability' = probability
               /\ pc' = "error"
               /\ err' = "ValueError"
    /\ UNCHANGED <<gap_vars, field_vars>>
    /\ UNCHANGED <<arith, ecs_values, prior_pdf, liks, posts, area, tails, mean, median,
                   interval, warned>>

Next ==
    \/ \E L \in Likelihoods : Multiply(L)
    \/ NormalizeStep
    \/ \E t \in TailPairs : Summarize(t[1], t[2])
    \/ \E t \in Thresholds : TailProbability(t)

Spec == Init /\ [][Next]_vars

------------------------------------------------------------------------------
\* Vocabulary of the properties

\* the trapezoidal rule in real arithmetic: sum of (x[i+1]-x[i]) (y[i]+y[i+1]) / 2
RECURSIVE TrapezoidRuleTo(_, _, _)
TrapezoidRuleTo(y, x, k) ==
    IF k = 0 THEN Zero
    ELSE RAdd(TrapezoidRuleTo(y, x, k - 1),
              RDiv(RMul(RSub(x[k + 1], x[k]), RAdd(y[k], y[k + 1])), Two))

TrapezoidRule(y, x) == TrapezoidRuleTo(y, x, Len(x) - 1)

\* the number of posteriors whose normalization statement has run
NormalizedCount == IF pc = "normalize" THEN Len(posts) - 1 ELSE Len(posts)

\* the normalization statement of the last posterior has just run
JustNormalized == pc = "multiply" /\ posts # <<>>

\* the array that update step j multiplied by liks[j]
Input(j) == IF j = 1 THEN prior_pdf ELSE posts[j - 1]

\* prior, the first j likelihoods and the first j posteriors are arrays on the grid
OnGrid(j) ==
    /\ Len(prior_pdf) = Len(ecs_values)
    /\ \A i \in 1..j : Len(liks[i]) = Len(ecs_values) /\ Len(posts[i]) = Len(ecs_values)

\* step j divided by a usable integral: finite and not zero
NonZeroArea(j) == IsFinite(area[j]) /\ area[j] # Zero

\* a <= b (compared over the least common denominator), and |a|
RLeq(a, b) ==
    LET g == GCD(a[2], b[2])
    IN IF g = 0 THEN a[1] * b[2] <= b[1] * a[2]
       ELSE a[1] * (b[2] \div g) <= b[1] * (a[2] \div g)

RAbs(a) == <<Abs(a[1]), a[2]>>

\* relative rounding tolerance for a quantity computed from an n-point array:
\* (2n + 4) unit roundoffs of 2^-Prec in floating point, none in real arithmetic
Tol(n) == IF arith = "float" THEN <<2 * n + 4, MantMax>> ELSE Zero

\* a is b within the relative tolerance tol
Close(a, b, tol) ==
    /\ IsFinite(a) /\ IsFinite(b)
    /\ RLeq(RAbs(RSub(a, b)), RMul(tol, RAbs(b)))

CloseArr(a, b, tol) ==
    /\ Len(a) = Len(b)
    /\ \A i \in 1..Len(a) : Close(a[i], b[i], tol)

\* C1: right after the normalization of a density on the grid whose integral
\* is not zero, the trapezoidal integral of the result over the grid is 1
\* (exactly in real arithmetic, within the rounding tolerance in floating point).
C1_NormalizeIntegratesToOne ==
    (JustNormalized /\ OnGrid(Len(posts)) /\ NonZeroArea(Len(posts)))
        => Close(TrapezoidRule(posts[Len(posts)], ecs_values), One,
                 Tol(Len(ecs_values)))

C1_Witness ==
    /\ arith = "float"
    /\ NormalizedCount = 2
    /\ OnGrid(2) /\ NonZeroArea(1) /\ NonZeroArea(2)
    /\ area[2] # One
    /\ TrapezoidRule(posts[2], ecs_values) # One

\* the update steps taken so far have all completed and nothing else has run
Completed == pc = "multiply"

\* every element is a finite number >= 0
IsDensity(a) == \A i \in 1..Len(a) : IsFinite(a[i]) /\ a[i][1] >= 0

\* C2 as stated: normalizing a normalized density again returns it unchanged,
\* element by element.
C2_NormalizeIdempotentExactly ==
    (JustNormalized /\ OnGrid(Len(posts)) /\ NonZeroArea(Len(posts)))
        => normalize(posts[Len(posts)], ecs_values) = posts[Len(posts)]

\* C2 amended: normalizing a normalized density again returns it unchanged in
\* real arithmetic, and changed by no more than the rounding tolerance in
\* floating point.
C2_NormalizeIdempotentWithinRounding ==
    (JustNormalized /\ OnGrid(Len(posts)) /\ NonZeroArea(Len(posts)))
        => CloseArr(normalize(posts[Len(posts)], ecs_values), posts[Len(posts)],
                    Tol(Len(ecs_values)))

C2_Witness ==
    /\ arith = "float"
    /\ NormalizedCount >= 1
    /\ OnGrid(1) /\ NonZeroArea(1)
    /\ area[1] # One
    /\ normalize(posts[1], ecs_values) # posts[1]

\* C3: every update of a density A by a likelihood B of the same length, both
\* with a non-zero integral, returns an array that is non-negative at every
\* grid point and whose trapezoidal integral is 1.
C3_UpdateNonNegativeIntegratesToOne ==
    \A j \in 1..NormalizedCount :
        (/\ OnGrid(j)
         /\ IsDensity(Input(j))
         /\ TrapezoidRule(Input(j), ecs_values) # Zero
         /\ TrapezoidRule(liks[j], ecs_values) # Zero)
            => /\ IsDensity(posts[j])
               /\ Close(TrapezoidRule(posts[j], ecs_values), One,
                        Tol(Len(ecs_values)))

\* C4 as stated: a completed run over n >= 1 likelihoods holds n posteriors,
\* the first is update(normalize(prior), L1) and the k-th is
\* update(posterior k-1, Lk).
C4_RunFoldsFromNormalizedPrior ==
    (Completed /\ Len(liks) >= 1 /\ OnGrid(Len(liks)))
        => /\ Len(posts) = Len(liks)
           /\ posts[1] = update(normalize(prior_pdf, ecs_values), liks[1], ecs_values)
           /\ \A k \in 2..Len(liks) :
                  posts[k] = update(posts[k - 1], liks[k], ecs_values)

\* C4 amended: a completed run over n >= 1 likelihoods holds n posteriors, the
\* first is update(prior, L1) with the prior as given (not normalized), which
\* is update(normalize(prior), L1) in real arithmetic and within the rounding
\* tolerance of it in floating point; the k-th is update(posterior k-1, Lk).
C4_RunFoldsFromPrior ==
    (Completed /\ Len(liks) >= 1 /\ OnGrid(Len(liks)))
        => /\ Len(posts) = Len(liks)
           /\ posts[1] = update(prior_pdf, liks[1], ecs_values)
           /\ NonZeroArea(1) =>
                  CloseArr(posts[1],
                           update(normalize(prior_pdf, ecs_values), liks[1], ecs_values),
                           Tol(Len(ecs_values)))
           /\ \A k \in 2..Len(liks) :
                  posts[k] = update(posts[k - 1], liks[k], ecs_values)

C4_Witness ==
    /\ arith = "float"
    /\ Completed /\ Len(liks) = 2 /\ OnGrid(2)
    /\ NonZeroArea(1) /\ NonZeroArea(2)
    /\ liks[1] # liks[2]
    /\ posts[1] # update(normalize(prior_pdf, ecs_values), liks[1], ecs_values)

Proper(a) ==
    /\ Len(a) = Len(ecs_values)
    /\ IsDensity(a)
    /\ TrapezoidRule(a, ecs_values) # Zero

\* C6: in real arithmetic, a run over two likelihoods and the run over the same
\* two in the other order end in the same posterior, and both integrate to 1
\* (prior and likelihoods being densities on the grid with non-zero integrals).
C6_OrderIndependentFinal ==
    (/\ arith = "exact" /\ Completed /\ Len(liks) = 2
     /\ Proper(prior_pdf) /\ Proper(liks[1]) /\ Proper(liks[2]))
        => LET other == update(update(prior_pdf, liks[2], ecs_values),
                               liks[1], ecs_values)
           IN /\ posts[2] = other
              /\ TrapezoidRule(posts[2], ecs_values) = One
              /\ TrapezoidRule(other, ecs_values) = One

\* prior * L1 * ... * Lk elementwise, and its normalization, in real arithmetic
RECURSIVE ProductTo(_)
ProductTo(k) ==
    IF k = 0 THEN prior_pdf
    ELSE LET p == ProductTo(k - 1) IN [i \in 1..Len(p) |-> RMul(p[i], liks[k][i])]

NormalizedOnce(k) ==
    LET p == ProductTo(k)
        a == TrapezoidRule(p, ecs_values)
    IN [i \in 1..Len(p) |-> RDiv(p[i], a)]

\* C7: the last posterior of a run, which renormalizes after every update, is
\* the product of the prior and all likelihoods normalized once: the same
\* array in real arithmetic (the same all-NaN array when that product has a
\* zero integral), and within the rounding tolerance of the steps taken in
\* floating point.
C7_StepwiseEqualsNormalizedOnce ==
    (Completed /\ Len(liks) >= 1 /\ OnGrid(Len(liks)))
        => LET n == Len(liks) IN
           IF arith = "exact" THEN posts[n] = NormalizedOnce(n)
           ELSE (\A j \in 1..n : NonZeroArea(j))
                    => CloseArr(posts[n], NormalizedOnce(n),
                                RMul(Whole(n), Tol(Len(ecs_values))))

C7_Witness ==
    /\ arith = "exact"
    /\ Completed /\ Len(liks) = 2 /\ OnGrid(2)
    /\ NonZeroArea(1) /\ NonZeroArea(2)
    /\ area[1] # One /\ area[2] # One
    /\ posts[2] = NormalizedOnce(2)

\* C8: a normalization whose integral is zero (here: of the product of two
\* densities on the grid that each have a non-zero integral) fails with
\* DegenerateDensityError and produces no density.
C8_ZeroIntegralRaises ==
    \A j \in 1..Len(area) :
        (Proper(Input(j)) /\ Proper(liks[j]) /\ area[j] = Zero)
            => (err = "DegenerateDensityError" /\ pc = "error")

\* C9: no update completes on arrays of different lengths: whenever the
\* current posterior, the likelihood and the grid are not all of one length,
\* the step fails instead of producing a posterior.
C9_LengthMismatchRaises ==
    \A j \in 1..NormalizedCount :
        /\ Len(Input(j)) = Len(liks[j])
        /\ Len(liks[j]) = Len(ecs_values)

\* the tails are acceptable: both in [0, 1] and lowerTail < upperTail
TailsInRange(t) ==
    /\ RLeq(Zero, t[1]) /\ RLeq(t[1], One)
    /\ RLeq(Zero, t[2]) /\ RLeq(t[2], One)
    /\ RLess(t[1], t[2])

\* C10: a credible interval of a normalized density on the grid, asked for
\* with a tail outside [0, 1] or with lowerTail >= upperTail, fails with an
\* error and returns no interval.
C10_BadTailsRaise ==
    (/\ tails # <<>>
     /\ OnGrid(Len(posts)) /\ NonZeroArea(Len(posts))
     /\ ~TailsInRange(tails))
        => (err # "none" /\ interval = <<>>)

\* the posterior that the analysis cells read
Final == posts[Len(posts)]

\* the summary cell has run on a normalized density on the grid
SummarizedDensity ==
    /\ tails # <<>>
    /\ OnGrid(Len(posts)) /\ NonZeroArea(Len(posts))

\* the first 1-based index at which the array c reaches or exceeds v, and
\* Len(c) + 1 when it never does
Crossings(c, v) == {i \in 1..Len(c) : ~IsNaN(c[i]) /\ RLeq(v, c[i])}

FirstCrossing(c, v) ==
    IF Crossings(c, v) = {} THEN Len(c) + 1
    ELSE CHOOSE i \in Crossings(c, v) : \A j \in Crossings(c, v) : i <= j

\* C11 as stated: the credible interval of a normalized density on the grid
\* with lowerTail = 0 and upperTail = 1 is (grid minimum, grid maximum).
C11_FullTailsReturnGridRange ==
    (SummarizedDensity /\ tails = <<Zero, One>>)
        => /\ pc = "done"
           /\ interval = <<ecs_values[1], ecs_values[Len(ecs_values)]>>

\* C11 amended: with lowerTail = 0 and upperTail = 1 the lower end is the grid
\* minimum and the upper end is the first grid point at which the cumulative
\* sum scaled by the average spacing reaches 1, which is the grid maximum or an
\* earlier point; when the scaled cumulative sum stays below 1 the cell fails
\* with IndexError and no interval is returned.
C11_FullTailsReturnFirstCrossing ==
    (SummarizedDensity /\ tails = <<Zero, One>>)
        => LET iUpp == FirstCrossing(Cumulative(Final, ecs_values), One)
           IN IF iUpp > Len(ecs_values)
              THEN err = "IndexError" /\ interval = <<>>
              ELSE /\ pc = "done"
                   /\ interval = <<ecs_values[1], ecs_values[iUpp]>>

C11_Witness ==
    /\ SummarizedDensity /\ tails = <<Zero, One>>
    /\ pc = "done"
    /\ interval[1] = ecs_values[1]
    /\ interval[2] # ecs_values[Len(ecs_values)]
    /\ Final[1] = Zero

\* the tail-probability cell has run on a normalized density on the grid
TailOfDensity ==
    /\ threshold # <<>>
    /\ OnGrid(Len(posts)) /\ NonZeroArea(Len(posts))

BelowGrid(t) == RLess(t, ecs_values[1])

AboveGrid(t) == RLess(ecs_values[Len(ecs_values)], t)

\* the values C12 states: the whole mass (1, as normalization leaves it) for a
\* threshold below the grid, 0 for a threshold above it
TailClamped ==
    /\ pc = "done"
    /\ BelowGrid(threshold) => Close(probability, One, Tol(Len(ecs_values)))
    /\ AboveGrid(threshold) => probability = Zero

\* C12: the tail probability of a normalized density on the grid for a
\* threshold outside the grid is 1 (threshold below the minimum) or 0
\* (threshold above the maximum), the computation completes, and it signals
\* ThresholdOutOfRangeWarning.
C12_OutOfRangeThresholdClampsAndWarns ==
    (TailOfDensity /\ (BelowGrid(threshold) \/ AboveGrid(threshold)))
        => /\ TailClamped
           /\ "ThresholdOutOfRangeWarning" \in warned

\* density[1] + ... + density[i] in real arithmetic
RECURSIVE RunningSum(_, _)
RunningSum(density, i) ==
    IF i = 0 THEN Zero ELSE RAdd(RunningSum(density, i - 1), density[i])

\* the average grid spacing in real arithmetic: (last - first) / (n - 1)
AverageSpacing(grid) ==
    RDiv(RSub(grid[Len(grid)], grid[1]), Whole(Len(grid) - 1))

\* the running sums multiplied by the average spacing: in real arithmetic as
\* defined, in floating point as the program's operations round them
ScaledRunningSums(density, grid) ==
    IF arith = "exact"
    THEN [i \in 1..Len(density) |-> RMul(RunningSum(density, i), AverageSpacing(grid))]
    ELSE Cumulative(density, grid)

\* C13: for a normalized density on the grid, the median is grid[i] for the
\* smallest i at which the running sum times the average spacing is >= 0.5,
\* and the two ends of the credible interval are found by the same rule for
\* lowerTail and upperTail (each whenever such an index exists).
C13_FirstCrossingRule ==
    SummarizedDensity
        => LET m == ScaledRunningSums(Final, ecs_values)
               n == Len(ecs_values)
               iMed == FirstCrossing(m, <<1, 2>>)
               iLow == FirstCrossing(m, Fl(tails[1]))
               iUpp == FirstCrossing(m, Fl(tails[2]))
           IN /\ iMed <= n => median = ecs_values[iMed]
              /\ (iMed <= n /\ iLow <= n /\ iUpp <= n)
                     => (pc = "done" /\ interval = <<ecs_values[iLow], ecs_values[iUpp]>>)

C13_Witness ==
    /\ SummarizedDensity /\ pc = "done"
    /\ tails = <<<<1, 40>>, <<39, 40>>>>
    /\ interval[1] # median /\ median # interval[2]
    /\ Final[1] # Zero

\* the normalization statement has just run on a density on the grid
NormalizedDensity ==
    /\ JustNormalized
    /\ OnGrid(Len(posts)) /\ NonZeroArea(Len(posts))

\* the total mass the summary statistics use: the last cumulative value
TotalMass == Cumulative(Final, ecs_values)[Len(Final)]

\* the grid is evenly spaced
EvenlySpaced(grid) ==
    \A i \in 1..(Len(grid) - 1) : RSub(grid[i + 1], grid[i]) = AverageSpacing(grid)

\* C14 as stated: for every density that normalize returned on the grid, the
\* total mass sum(density) * average spacing is the integral that normalize
\* set to 1 (within the rounding tolerance in floating point).
C14_SummaryMassIsOne ==
    NormalizedDensity => Close(TotalMass, One, Tol(Len(ecs_values)))

\* C14 amended: on an evenly spaced grid the total mass the summary statistics
\* use is the trapezoidal integral that normalize set to 1 plus half the
\* spacing times the sum of the two end-point densities (within the rounding
\* tolerance in floating point); so it is 1 exactly when the density is 0 at
\* both ends of the grid.
C14_SummaryMassIsOnePlusEnds ==
    (NormalizedDensity /\ EvenlySpaced(ecs_values))
        => LET ends == RMul(RDiv(AverageSpacing(ecs_values), Two),
                            RAdd(Final[1], Final[Len(Final)]))
           IN /\ Close(TotalMass, RAdd(One, ends), Tol(Len(ecs_values)))
              /\ (arith = "exact") => (TotalMass = One <=> ends = Zero)

C14_Witness ==
    /\ NormalizedDensity /\ EvenlySpaced(ecs_values)
    /\ arith = "float"
    /\ Len(ecs_values) = 3
    /\ Final[1] # Zero /\ Final[3] # Zero
    /\ area[Len(area)] # One
    /\ ~Close(TotalMass, One, Tol(3))

\* C15: every array of a run has the grid's length: the prior, each likelihood
\* applied and each posterior produced, at every step.
C15_AllLengthsEqualGrid ==
    \A j \in 1..NormalizedCount :
        /\ Len(prior_pdf) = Len(ecs_values)
        /\ Len(liks[j]) = Len(ecs_values)
        /\ Len(posts[j]) = Len(ecs_values)

\* C16: no step changes what exists: the grid, the prior, every likelihood
\* already applied and every posterior whose normalization has run stay as
\* they are through each later update step and each analysis cell (the
\* in-place division writes only to the product array of its own step).
C16_PosteriorsImmutable ==
    [][/\ ecs_values' = ecs_values
       /\ prior_pdf' = prior_pdf
       /\ Len(liks') >= Len(liks)
       /\ \A j \in 1..Len(liks) : liks'[j] = liks[j]
       /\ Len(posts') >= NormalizedCount
       /\ \A j \in 1..NormalizedCount : posts'[j] = posts[j]]_vars

C16_Witness ==
    /\ pc = "done"
    /\ Len(posts) = 2 /\ OnGrid(2)
    /\ NonZeroArea(1) /\ NonZeroArea(2)
    /\ posts[1] # posts[2]
    /\ posts[1] # prior_pdf
    /\ mean # <<>>

\* the prior is the uniform prior of the grid
UniformPrior == prior_pdf = uniform_prior_pdf(ecs_values)

Stopped == pc \in {"done", "error"}

\* k likelihoods consumed means k products formed and, once the division has
\* run, k normalizations done: no step is skipped and none is repeated
OneStepPerLikelihood ==
    /\ pc \in {"multiply", "done"}
           => (Len(posts) = Len(liks) /\ Len(area) = Len(liks))
    /\ pc = "normalize"
           => (Len(posts) = Len(liks) /\ Len(area) = Len(liks) - 1)

\* an upper bound on the statements a run can still execute: two for every
\* likelihood not yet consumed, one for a pending division, one analysis cell
Remaining ==
    IF Stopped THEN 0
    ELSE 2 * (MaxLik - Len(liks)) + (IF pc = "normalize" THEN 2 ELSE 1)

\* C20: every run stops after one multiply-and-normalize step per likelihood:
\* each statement executed lowers the bound on those that remain (so a run
\* over n likelihoods executes at most 2n + 1 statements and nothing runs
\* after it has stopped), a step consumes exactly one likelihood and the next
\* one starts only when the division of this one has run, and at every point
\* the products formed and the normalizations done match the likelihoods
\* consumed.
C20_RunTerminatesAfterOneStepPerLikelihood ==
    /\ []OneStepPerLikelihood
    /\ [][/\ Remaining' < Remaining
          /\ Remaining' >= 0
          /\ Len(liks') \in {Len(liks), Len(liks) + 1}
          /\ Len(liks') = Len(liks) + 1
                 => (pc = "multiply" /\ pc' \in {"normalize", "error"})]_vars

C20_Witness ==
    /\ pc = "done"
    /\ Len(liks) = 2 /\ Len(posts) = 2 /\ Len(area) = 2
    /\ liks[1] # liks[2]
    /\ OnGrid(2) /\ NonZeroArea(2)
    /\ probability # <<>>

\* positive factors by which an input is rescaled
Scales == { <<3, 1>>, <<3, 4>> }

\* c * a for a scalar c, as the program's arithmetic computes it
Scaled(c, a) == [i \in 1..Len(a) |-> FMul(Fl(c), a[i])]

\* the last update step has completed on arrays of the grid's length
LastStepOnGrid ==
    /\ Completed /\ Len(liks) >= 1
    /\ OnGrid(Len(liks))

\* C21 as stated: the last update is unchanged, element by element, when the
\* density it multiplied or the likelihood is rescaled by c > 0; hence the
\* first posterior is the one obtained from the normalized prior.
C21_UpdateScaleInvariantExactly ==
    LastStepOnGrid
        => LET k == Len(liks) IN
           /\ \A c \in Scales :
                 /\ update(Scaled(c, Input(k)), liks[k], ecs_values) = posts[k]
                 /\ update(Input(k), Scaled(c, liks[k]), ecs_values) = posts[k]
           /\ posts[1] = update(normalize(prior_pdf, ecs_values), liks[1], ecs_values)

\* C21 amended: rescaling the density or the likelihood by c > 0 leaves the
\* update unchanged in real arithmetic, and changes it by no more than the
\* rounding tolerance in floating point (the integral not being zero); the
\* same holds for the first posterior and the one obtained from the
\* normalized prior.
C21_UpdateScaleInvariantWithinRounding ==
    LastStepOnGrid
        => LET k == Len(liks)
               n == Len(ecs_values)
               Same(a, b) == IF arith = "exact" THEN a = b
                             ELSE NonZeroArea(k) => CloseArr(a, b, Tol(n))
           IN /\ \A c \in Scales :
                    /\ Same(update(Scaled(c, Input(k)), liks[k], ecs_values), posts[k])
                    /\ Same(update(Input(k), Scaled(c, liks[k]), ecs_values), posts[k])
              /\ k = 1 => Same(update(normalize(prior_pdf, ecs_values), liks[1],
                                      ecs_values), posts[1])

C21_Witness ==
    /\ LastStepOnGrid /\ NonZeroArea(Len(liks))
    /\ arith = "float"
    /\ Len(liks) = 2
    /\ update(Scaled(<<3, 4>>, Input(2)), liks[2], ecs_values) # posts[2]
    /\ area[2] # One

\* a tail value q in [0, 1]
InUnitInterval(q) == RLeq(Zero, q) /\ RLeq(q, One)

\* C22: for a normalized density on the grid and tails in [0, 1], the summary
\* cell never indexes past the end of the grid: it completes, and the median
\* and both ends of the interval are grid points.
C22_CrossingIndexAlwaysValid ==
    (SummarizedDensity /\ InUnitInterval(tails[1]) /\ InUnitInterval(tails[2]))
        => /\ err # "IndexError"
           /\ pc = "done"
           /\ \E i \in 1..Len(ecs_values) : median = ecs_values[i]
           /\ \E i, j \in 1..Len(ecs_values) :
                  interval = <<ecs_values[i], ecs_values[j]>>

\* the array never decreases from one index to the next
NonDecreasing(c) == \A i \in 1..(Len(c) - 1) : RLeq(c[i], c[i + 1])

\* a lies between the first and the last grid point
WithinGrid(a) ==
    RLeq(ecs_values[1], a) /\ RLeq(a, ecs_values[Len(ecs_values)])

\* C23: for a normalized density on the grid the scaled cumulative sum is
\* non-decreasing, and when the summary cell returns for tails
\* lowerTail <= 0.5 <= upperTail, then lower <= median <= upper and all three
\* lie between the grid's minimum and maximum.
C23_IntervalBracketsMedian ==
    SummarizedDensity
        => /\ NonDecreasing(Cumulative(Final, ecs_values))
           /\ (pc = "done" /\ RLeq(tails[1], <<1, 2>>) /\ RLeq(<<1, 2>>, tails[2]))
                  => /\ RLeq(interval[1], median) /\ RLeq(median, interval[2])
                     /\ WithinGrid(interval[1]) /\ WithinGrid(median)
                     /\ WithinGrid(interval[2])

C23_Witness ==
    /\ SummarizedDensity /\ pc = "done"
    /\ arith = "float"
    /\ Len(liks) = 2
    /\ RLess(tails[1], <<1, 2>>) /\ RLess(<<1, 2>>, tails[2])
    /\ RLess(interval[1], median) /\ RLess(median, interval[2])

\* the summary cell has computed the mean of a normalized density on the grid
MeanOfDensity == SummarizedDensity /\ mean # <<>>

\* grid[1] * density[1] + ... + grid[i] * density[i] in real arithmetic
RECURSIVE WeightedSum(_, _, _)
WeightedSum(density, grid, i) ==
    IF i = 0 THEN Zero
    ELSE RAdd(WeightedSum(density, grid, i - 1), RMul(grid[i], density[i]))

\* C24 as stated: the mean of a normalized density on the grid lies between
\* the grid's minimum and the grid's maximum.
C24_MeanWithinGrid == MeanOfDensity => WithinGrid(mean)

\* C24 amended: the mean is sum(grid[i] * density[i]) times the average
\* spacing (within the rounding tolerance in floating point), and that value
\* lies between M * minimum and M * maximum of the grid, where
\* M = sum(density) * average spacing is the total mass the summary statistics
\* use.
C24_MeanWithinGridTimesMass ==
    MeanOfDensity
        => LET n == Len(ecs_values)
               h == AverageSpacing(ecs_values)
               e == RMul(WeightedSum(Final, ecs_values, n), h)
               m == RMul(RunningSum(Final, n), h)
           IN /\ Close(mean, e, Tol(n))
              /\ RLeq(RMul(m, ecs_values[1]), e)
              /\ RLeq(e, RMul(m, ecs_values[n]))

C24_Witness ==
    /\ MeanOfDensity
    /\ arith = "float"
    /\ pc = "done"
    /\ RLess(ecs_values[Len(ecs_values)], mean)
    /\ Final[1] # Zero

\* the tail probability of the last posterior above the threshold t
TailAt(t) ==
    LET k == searchsorted(ecs_values, t)
    IN trapezoid(From(Final, k), From(ecs_values, k))

\* the tail probability never increases with the threshold, and is 0 for a
\* threshold at or past the last grid point
TailMonotone ==
    /\ probability = TailAt(threshold)
    /\ \A t \in Thresholds : RLeq(threshold, t) => RLeq(TailAt(t), probability)
    /\ RLeq(ecs_values[Len(ecs_values)], threshold) => probability = Zero

\* C25 as stated: the tail probability of a normalized density on the grid is
\* within [0, 1], never increases with the threshold, and is 0 for a
\* threshold at or past the last grid point.
C25_TailWithinUnitInterval ==
    TailOfDensity
        => /\ pc = "done"
           /\ RLeq(Zero, probability) /\ RLeq(probability, One)
           /\ TailMonotone

\* C25 amended: the tail probability is at least 0 and at most 1 in real
\* arithmetic, and at most 1 plus the rounding tolerance in floating point;
\* it never increases with the threshold, and is 0 for a threshold at or past
\* the last grid point.
C25_TailWithinUnitIntervalUpToRounding ==
    TailOfDensity
        => /\ pc = "done"
           /\ RLeq(Zero, probability)
           /\ RLeq(probability, RAdd(One, Tol(Len(ecs_values))))
           /\ TailMonotone

C25_Witness ==
    /\ TailOfDensity /\ pc = "done"
    /\ arith = "float"
    /\ RLess(One, probability)
    /\ \E t \in Thresholds : RLess(Zero, TailAt(t)) /\ RLess(TailAt(t), probability)

-------------------------------------------------------------------------------
(***************************************************************************)
(* Reconstruction of the tropical Pacific SST field with Gaussian Process  *)
(* regression, as 08_interpolation/interpolation_and_resampling.ipynb      *)
(* computes it.  A DataArray is a record of its latitude and longitude     *)
(* coordinates and its values[t][i][j] over (time, latitude, longitude).   *)
(* The time axis of the model has one step per winter.  scikit-learn's     *)
(* regressor is not interpreted: a fitted model is the training set that   *)
(* fit received, and a prediction is the pair of the fitted model and the  *)
(* points that predict received, which are all that its value depends on.  *)
(***************************************************************************)

\* the winters on the time axis of the data set
time == <<"1983", "1998">>

\* the values of one grid cell over the time axis: valid at every time (one of
\* them at the bound -4), missing at one time, and sea ice (-1000) at one time
CellSeries ==
    { <<Whole(-4), Whole(1)>>, <<Whole(2), Whole(5)>>,
      <<NaN, Whole(2)>>, <<Whole(3), Whole(-1000)>> }

\* latitude (descending) and longitude (-180..180) axes of the data set; each
\* has one point outside the tropical Pacific box
Axes ==
    { [latitude |-> <<15>>, longitude |-> <<-175, -60, 125, 170>>],
      [latitude |-> <<45, 15, 0, -15>>, longitude |-> <<-150>>] }

\* the values over (time, latitude, longitude) of a field given by cell
Values(nlat, nlon, cell) ==
    [t \in 1..Len(time) |-> [i \in 1..nlat |-> [j \in 1..nlon |-> cell[i][j][t]]]]

\* ds.sst of the files the notebook may open
DataSets ==
    UNION { { [latitude |-> a.latitude, longitude |-> a.longitude,
               values |-> Values(Len(a.latitude), Len(a.longitude), cell)] :
              cell \in [1..Len(a.latitude) -> [1..Len(a.longitude) -> CellSeries]] } :
            a \in Axes }

\* x >= c as numpy compares: False for NaN
AtLeast(x, c) == ~IsNaN(x) /\ ~RLess(x, c)

\* sst.where(sst >= -4, np.nan) on the values
where_valid(v) ==
    [t \in 1..Len(v) |-> [i \in 1..Len(v[t]) |-> [j \in 1..Len(v[t][i]) |->
        IF AtLeast(v[t][i][j], Whole(-4)) THEN v[t][i][j] ELSE NaN]]]

\* mutant of isnull_any: a cell is masked only when it is missing at every time
isnull_any_All(v) ==
    [i \in 1..Len(v[1]) |-> [j \in 1..Len(v[1][i]) |->
        \A t \in 1..Len(v) : IsNaN(v[t][i][j])]]

\* sst.isnull().any(dim='time')
isnull_any(v) ==
    [i \in 1..Len(v[1]) |-> [j \in 1..Len(v[1][i]) |->
        \E t \in 1..Len(v) : IsNaN(v[t][i][j])]]

\* sst.where(~nan_mask, np.nan) on the values
where_unmasked(v, mask) ==
    [t \in 1..Len(v) |-> [i \in 1..Len(v[t]) |-> [j \in 1..Len(v[t][i]) |->
        IF ~mask[i][j] THEN v[t][i][j] ELSE NaN]]]

\* box of the tropical Pacific
min_lat == -20
max_lat == 20
min_lon == 120
max_lon == 280

\* the positions of a in the order sortby gives: ascending, ties in the order
\* they had
SortOrder(a) ==
    CHOOSE p \in [1..Len(a) -> 1..Len(a)] :
        /\ \A k, l \in 1..Len(a) : k # l => p[k] # p[l]
        /\ \A k \in 1..(Len(a) - 1) :
              \/ a[p[k]] < a[p[k + 1]]
              \/ a[p[k]] = a[p[k + 1]] /\ p[k] < p[k + 1]

\* the positions, in order, of the points of axis a between lo and hi (both
\* included, as a slice of labels is)
RECURSIVE Within(_, _, _, _)
Within(a, lo, hi, k) ==
    IF k > Len(a) THEN <<>>
    ELSE (IF lo <= a[k] /\ a[k] <= hi THEN <<k>> ELSE <<>>) \o Within(a, lo, hi, k + 1)

\* the DataArray with rows rows and columns cols of d, in that order
Take(d, rows, cols) ==
    [latitude |-> [i \in 1..Len(rows) |-> d.latitude[rows[i]]],
     longitude |-> [j \in 1..Len(cols) |-> d.longitude[cols[j]]],
     values |-> [t \in 1..Len(d.values) |-> [i \in 1..Len(rows) |->
                    [j \in 1..Len(cols) |-> d.values[t][rows[i]][cols[j]]]]]]

\* assign_coords(longitude % 360), sortby(longitude) and
\* sel(longitude=slice(min_lon, max_lon), latitude=slice(max_lat, min_lat))
Region(d) ==
    LET lon == [j \in 1..Len(d.longitude) |-> d.longitude[j] % 360]
        shifted == [d EXCEPT !.longitude = lon]
        sorted == Take(shifted, [i \in 1..Len(d.latitude) |-> i], SortOrder(lon))
    IN Take(sorted, Within(sorted.latitude, min_lat, max_lat, 1),
                    Within(sorted.longitude, min_lon, max_lon, 1))

\* the values of one cell over time that are not missing
RECURSIVE Present(_, _, _, _)
Present(v, i, j, t) ==
    IF t > Len(v) THEN <<>>
    ELSE (IF IsNaN(v[t][i][j]) THEN <<>> ELSE <<v[t][i][j]>>) \o Present(v, i, j, t + 1)

\* mean(dim='time') of one cell, missing values skipped; NaN when all are missing
TimeMean(v, i, j) ==
    LET p == Present(v, i, j, 1)
    IN IF Len(p) = 0 THEN NaN ELSE FDiv(Sum(p), Whole(Len(p)))

\* the winter anomalies: each value minus the mean over time of its cell
Anomalies(d) ==
    [d EXCEPT !.values =
        [t \in 1..Len(d.values) |-> [i \in 1..Len(d.latitude) |->
            [j \in 1..Len(d.longitude) |->
                FSub(d.values[t][i][j], TimeMean(d.values, i, j))]]]]

\* the position of a winter on the time axis
TimeIndex(year) == CHOOSE t \in 1..Len(time) : time[t] = year

\* djf.sel(time=year).values.flatten(): row after row
Flatten(d, year) ==
    LET nlon == Len(d.longitude)
    IN [k \in 1..(Len(d.latitude) * nlon) |->
            d.values[TimeIndex(year)][((k - 1) \div nlon) + 1][((k - 1) % nlon) + 1]]

\* np.meshgrid(longitudes, latitudes) and np.column_stack of the two ravelled
\* grids: one row <<longitude, latitude>> per grid point, row after row
Coords(d) ==
    LET nlon == Len(d.longitude)
    IN [k \in 1..(Len(d.latitude) * nlon) |->
            <<d.longitude[((k - 1) % nlon) + 1], d.latitude[((k - 1) \div nlon) + 1]>>]

\* sizes of the random samples
n_samples_sst == 2
n_samples_1983 == 2
n_samples_1998 == 2

\* mutant of choice: the indices are drawn with replacement
choice_Replace(n, size) == [1..size -> 0..(n - 1)]

\* the arrays np.random.choice(n, size=size, replace=False) can return: n is
\* the number of points of the field, far above the sizes the notebook asks for
choice(n, size) ==
    { p \in [1..size -> 0..(n - 1)] : \A k, l \in 1..size : k # l => p[k] # p[l] }

\* a[indices] for an array of 0-based indices
AtIndices(a, indices) == [k \in 1..Len(indices) |-> a[indices[k] + 1]]

\* a[mask] for a boolean mask
RECURSIVE Masked(_, _, _)
Masked(a, mask, k) ==
    IF k > Len(a) THEN <<>>
    ELSE (IF mask[k] THEN <<a[k]>> ELSE <<>>) \o Masked(a, mask, k + 1)

\* the observations at the sampled indices: X_train = coords[indices],
\* y_train = sst_values[indices], and the two with the missing values removed
Observed(d, year, indices) ==
    LET X_train == AtIndices(Coords(d), indices)
        y_train == AtIndices(Flatten(d, year), indices)
        valid_indices == [k \in 1..Len(y_train) |-> ~IsNaN(y_train[k])]
    IN [indices |-> indices, X_train |-> X_train, y_train |-> y_train,
        X_train_valid |-> Masked(X_train, valid_indices, 1),
        y_train_valid |-> Masked(y_train, valid_indices, 1)]

\* no observations yet
NotSampled ==
    [indices |-> <<>>, X_train |-> <<>>, y_train |-> <<>>,
     X_train_valid |-> <<>>, y_train_valid |-> <<>>]

\* a regressor before fit, and after fit(X, y)
Unfitted == [fitted |-> FALSE, X |-> <<>>, y |-> <<>>]

Fit(X, y) == [fitted |-> TRUE, X |-> X, y |-> y]

\* fit raises for an empty training set and for a missing target
FitFails(X, y) == Len(y) = 0 \/ \E k \in 1..Len(y) : IsNaN(y[k])

\* no prediction yet, and the value of model.predict(X)
NotPredicted == [made |-> FALSE, model |-> Unfitted, X |-> <<>>]

Predict(model, X) == [made |-> TRUE, model |-> model, X |-> X]

\* the state after the data set is opened and sst = ds.sst
FieldInit ==
    /\ arith = "float"
    /\ ds \in DataSets
    /\ sst = ds
    /\ nan_mask = <<>>
    /\ djf = <<>>
    /\ sample = [s \in {"", "_1983", "_1998"} |-> NotSampled]
    /\ fitted = [m \in {"gp", "gp0"} |-> Unfitted]
    /\ predicted = [y \in {"y_pred", "y_pred_1998"} |-> NotPredicted]
    /\ pc = "mask"
    /\ err = "none"
    /\ BayesUnset /\ GapUnset

\* sst.where(sst >= -4), nan_mask = isnull().any(dim='time'), sst.where(~nan_mask)
Mask ==
    /\ pc = "mask"
    /\ LET valid == where_valid(sst.values)
           mask == isnull_any(valid)
       IN /\ nan_mask' = mask
          /\ sst' = [sst EXCEPT !.values = where_unmasked(valid, mask)]
    /\ pc' = "region"
    /\ UNCHANGED <<arith, err, ds, djf, sample, fitted, predicted, bayes_vars, gap_vars>>

\* the longitudes are shifted to 0..360 and sorted, and the box is selected
SelectRegion ==
    /\ pc = "region"
    /\ sst' = Region(sst)
    /\ pc' = "djf"
    /\ UNCHANGED <<arith, err, ds, nan_mask, djf, sample, fitted, predicted,
                   bayes_vars, gap_vars>>

\* the anomalies of the winters
Winters ==
    /\ pc = "djf"
    /\ djf' = Anomalies(sst)
    /\ pc' = "sample"
    /\ UNCHANGED <<arith, err, ds, sst, nan_mask, sample, fitted, predicted,
                   bayes_vars, gap_vars>>

\* a random set of observations of the winter of 1998
Sample ==
    /\ pc = "sample"
    /\ \E indices \in choice(Len(Coords(djf)), n_samples_sst) :
          sample' = [sample EXCEPT ![""] = Observed(djf, "1998", indices)]
    /\ pc' = "fit"
    /\ UNCHANGED <<arith, err, ds, sst, nan_mask, djf, fitted, predicted,
                   bayes_vars, gap_vars>>

\* gp.fit(X_train_valid, y_train_valid) and gp.predict(coords)
FitPredict ==
    /\ pc = "fit"
    /\ LET s == sample[""]
       IN IF FitFails(s.X_train_valid, s.y_train_valid)
          THEN /\ pc' = "error"
               /\ err' = "ValueError"
               /\ UNCHANGED <<fitted, predicted>>
          ELSE /\ fitted' = [fitted EXCEPT !["gp"] = Fit(s.X_train_valid, s.y_train_valid)]
               /\ predicted' = [predicted EXCEPT
                                   !["y_pred"] = Predict(fitted'["gp"], Coords(djf))]
               /\ pc' = "train_1983"
               /\ err' = err
    /\ UNCHANGED <<arith, ds, sst, nan_mask, djf, sample, bayes_vars, gap_vars>>

\* a larger sample of the winter of 1983 and gp0.fit on it
Train1983 ==
    /\ pc = "train_1983"
    /\ \E indices_1983 \in choice(Len(Coords(djf)), n_samples_1983) :
          sample' = [sample EXCEPT !["_1983"] = Observed(djf, "1983", indices_1983)]
    /\ LET s == sample'["_1983"]
       IN IF FitFails(s.X_train_valid, s.y_train_valid)
          THEN /\ pc' = "error"
               /\ err' = "ValueError"
               /\ fitted' = fitted
          ELSE /\ fitted' = [fitted EXCEPT !["gp0"] = Fit(s.X_train_valid, s.y_train_valid)]
               /\ pc' = "observe_1998"
               /\ err' = err
    /\ UNCHANGED <<arith, ds, sst, nan_mask, djf, predicted, bayes_vars, gap_vars>>

\* the limited random set of observations of 1998
Observe1998 ==
    /\ pc = "observe_1998"
    /\ \E indices_1998 \in choice(Len(Coords(djf)), n_samples_1998) :
          sample' = [sample EXCEPT !["_1998"] = Observed(djf, "1998", indices_1998)]
    /\ pc' = "predict_1998"
    /\ UNCHANGED <<arith, err, ds, sst, nan_mask, djf, fitted, predicted,
                   bayes_vars, gap_vars>>

\* what gp0.predict receives after the observations of 1998 were selected
PredictionInput(gp0, X_train_1998_valid, y_train_1998_valid, X_pred_1998) ==
    Predict(gp0, X_pred_1998)

\* y_pred_1998 = gp0.predict(X_pred_1998) with X_pred_1998 = coords_1998
Predict1998 ==
    /\ pc = "predict_1998"
    /\ predicted' = [predicted EXCEPT !["y_pred_1998"] =
                        PredictionInput(fitted["gp0"], sample["_1998"].X_train_valid,
                                        sample["_1998"].y_train_valid, Coords(djf))]
    /\ pc' = "done"
    /\ UNCHANGED <<arith, err, ds, sst, nan_mask, djf, sample, fitted,
                   bayes_vars, gap_vars>>

FieldNext ==
    \/ Mask
    \/ SelectRegion
    \/ Winters
    \/ Sample
    \/ FitPredict
    \/ Train1983
    \/ Observe1998
    \/ Predict1998

FieldSpec == FieldInit /\ [][FieldNext]_vars

-------------------------------------------------------------------------------
\* Properties of the field reconstruction

\* the prediction of the 1998 field has been made
Predicted1998 == pc = "done" /\ predicted["y_pred_1998"].made

\* C26: the predicted 1998 field is produced from the limited observations of
\* 1998: had the sampling given other valid observations (X_train_1998_valid,
\* y_train_1998_valid), the prediction step that yields y_pred_1998 would have
\* received another input.
C26_PredictionReadsObservations ==
    Predicted1998 =>
        \A indices \in choice(Len(Coords(djf)), n_samples_1998) :
            LET other == Observed(djf, "1998", indices)
                mine == sample["_1998"]
            IN (\/ other.X_train_valid # mine.X_train_valid
                \/ other.y_train_valid # mine.y_train_valid)
               => PredictionInput(fitted["gp0"], other.X_train_valid,
                                  other.y_train_valid, Coords(djf))
                     # predicted["y_pred_1998"]

\* the masking steps have run and the region is not selected yet, so that sst
\* still has the cells of ds.sst
JustMasked == pc = "region"

\* a cell of ds.sst that is missing or below -4 at some time
Spoiled(i, j) ==
    \E k \in 1..Len(ds.values) :
        IsNaN(ds.values[k][i][j]) \/ RLess(ds.values[k][i][j], Whole(-4))

\* every cell of the values v is missing at every time or at none
AllOrNothing(v) ==
    \A i \in 1..Len(v[1]) : \A j \in 1..Len(v[1][i]) :
        \/ \A k \in 1..Len(v) : IsNaN(v[k][i][j])
        \/ \A k \in 1..Len(v) : ~IsNaN(v[k][i][j])

\* C28: after the masking steps every grid cell of sst is valid at every time
\* or missing at every time: a cell that is missing or below -4 at any single
\* time is missing at all times (and flagged in nan_mask), and a cell valid at
\* all times keeps its values.
C28_MaskedCellsAllOrNothing ==
    /\ (sst # <<>> /\ pc # "mask") => AllOrNothing(sst.values)
    /\ JustMasked =>
          \A i \in 1..Len(ds.latitude) : \A j \in 1..Len(ds.longitude) :
              /\ nan_mask[i][j] = Spoiled(i, j)
              /\ Spoiled(i, j) => \A k \in 1..Len(time) : IsNaN(sst.values[k][i][j])
              /\ ~Spoiled(i, j) =>
                    \A k \in 1..Len(time) : sst.values[k][i][j] = ds.values[k][i][j]

C28_Witness ==
    /\ JustMasked
    /\ \E i \in 1..Len(ds.latitude) : \E j \in 1..Len(ds.longitude) :
          /\ IsNaN(ds.values[1][i][j]) /\ ~IsNaN(ds.values[2][i][j])
          /\ IsNaN(sst.values[2][i][j])
    /\ \E i \in 1..Len(ds.latitude) : \E j \in 1..Len(ds.longitude) :
          /\ ds.values[2][i][j] = Whole(-1000) /\ IsNaN(sst.values[1][i][j])
    /\ \E i \in 1..Len(ds.latitude) : \E j \in 1..Len(ds.longitude) :
          /\ ds.values[1][i][j] = Whole(-4) /\ sst.values[1][i][j] = Whole(-4)

\* the training set a fitted model received has no missing target, pairs every
\* coordinate row with the value of the winter's field at that grid point, and
\* has no grid point twice
TrainingSetSound(model, year) ==
    LET coords == Coords(djf)
        values == Flatten(djf, year)
    IN model.fitted =>
          /\ Len(model.X) = Len(model.y)
          /\ \A k \in 1..Len(model.y) :
                /\ ~IsNaN(model.y[k])
                /\ \E g \in 1..Len(coords) :
                      coords[g] = model.X[k] /\ values[g] = model.y[k]
          /\ \A k, l \in 1..Len(model.X) : k # l => model.X[k] # model.X[l]

-------------------------------------------------------------------------------
(***************************************************************************)
(* Linear gap filling of the synthetic series, as the first cells of       *)
(* 08_interpolation/interpolation_and_resampling.ipynb compute it: two     *)
(* blocks of st are set to NaN and np.interp fills them from the valid     *)
(* points.  The series is shorter than the notebook's 64 points and the    *)
(* blocks are scaled with it; they stay inside the series, as 12..19 and   *)
(* 30..36 do.                                                              *)
(***************************************************************************)

\* number of points of the series
n_samples == 7

\* t = np.arange(1, n_samples+1)
tvec == [i \in 1..n_samples |-> Whole(i)]

\* values of st = cycle_amplitude * np.sin(u), which lie within -3..3
SeriesValues == { Whole(-3), <<1, 1024>>, <<5, 2>> }

\* the pairs of slices that are removed (0-based, the stop excluded)
Blocks ==
    { << <<1, 3>>, <<4, 6>> >>, << <<1, 2>>, <<3, 6>> >>, << <<2, 4>>, <<5, 6>> >> }

\* a[start:stop] = np.nan
SetNaN(a, slice) ==
    [i \in 1..Len(a) |-> IF slice[1] < i /\ i <= slice[2] THEN NaN ELSE a[i]]

\* valid = ~np.isnan(stm)
Valid(a) == [i \in 1..Len(a) |-> ~IsNaN(a[i])]

\* the position j of np.interp's search: xp[j] <= x, and x < xp[j+1] unless j
\* is the last position
LastAtMost(xp, x) ==
    CHOOSE j \in 1..Len(xp) :
        /\ ~RLess(x, xp[j])
        /\ j = Len(xp) \/ RLess(x, xp[j + 1])

\* mutant of interp_value: the rise between the two points is not divided by
\* their distance
interp_value_NoSlope(x, xp, fp) ==
    LET n == Len(xp)
    IN IF RLess(xp[n], x) THEN fp[n]
       ELSE IF RLess(x, xp[1]) THEN fp[1]
       ELSE IF n = 1 THEN fp[1]
       ELSE LET j == LastAtMost(xp, x)
            IN IF j = n THEN fp[j]
               ELSE IF xp[j] = x THEN fp[j]
               ELSE FAdd(FMul(FSub(fp[j + 1], fp[j]), FSub(x, xp[j])), fp[j])

\* np.interp at one point x: the end values outside xp, fp[j] at a sample
\* point, and slope * (x - xp[j]) + fp[j] between two sample points
interp_value(x, xp, fp) ==
    LET n == Len(xp)
    IN IF RLess(xp[n], x) THEN fp[n]
       ELSE IF RLess(x, xp[1]) THEN fp[1]
       ELSE IF n = 1 THEN fp[1]
       ELSE LET j == LastAtMost(xp, x)
            IN IF j = n THEN fp[j]
               ELSE IF xp[j] = x THEN fp[j]
               ELSE LET slope == FDiv(FSub(fp[j + 1], fp[j]), FSub(xp[j + 1], xp[j]))
                        left == FAdd(FMul(slope, FSub(x, xp[j])), fp[j])
                        right == FAdd(FMul(slope, FSub(x, xp[j + 1])), fp[j + 1])
                    IN IF ~IsNaN(left) THEN left
                       ELSE IF IsNaN(right) /\ fp[j] = fp[j + 1] THEN fp[j]
                       ELSE right

\* np.interp(x, xp, fp)
interp(x, xp, fp) == [i \in 1..Len(x) |-> interp_value(x[i], xp, fp)]

\* the state after st is computed
GapInit ==
    /\ arith \in {"exact", "float"}
    /\ st \in [1..n_samples -> SeriesValues]
    /\ stm = <<>>
    /\ stm_linear = <<>>
    /\ pc = "remove"
    /\ err = "none"
    /\ BayesUnset /\ FieldUnset

\* stm = st.copy(); stm[12:20] = np.nan; stm[30:37] = np.nan
RemoveBlocks(blocks) ==
    /\ pc = "remove"
    /\ stm' = SetNaN(SetNaN(st, blocks[1]), blocks[2])
    /\ pc' = "interpolate"
    /\ UNCHANGED <<arith, err, st, stm_linear, bayes_vars, field_vars>>

\* valid = ~np.isnan(stm); stm_linear = np.interp(t, t[valid], stm[valid])
Interpolate ==
    /\ pc = "interpolate"
    /\ LET valid == Valid(stm)
       IN stm_linear' = interp(tvec, Masked(tvec, valid, 1), Masked(stm, valid, 1))
    /\ pc' = "done"
    /\ UNCHANGED <<arith, err, st, stm, bayes_vars, field_vars>>

GapNext ==
    \/ \E blocks \in Blocks : RemoveBlocks(blocks)
    \/ Interpolate

GapSpec == GapInit /\ [][GapNext]_vars

\* the gaps have been filled
Filled == pc = "done" /\ stm_linear # <<>>

\* the nearest valid index before and after index i of stm
ValidBefore(i) == CHOOSE k \in 1..(i - 1) : ~IsNaN(stm[k]) /\ \A l \in (k + 1)..(i - 1) : IsNaN(stm[l])

ValidAfter(i) ==
    CHOOSE k \in (i + 1)..Len(stm) : ~IsNaN(stm[k]) /\ \A l \in (i + 1)..(k - 1) : IsNaN(stm[l])

\* v lies between a and b, whichever is larger
Between(v, a, b) ==
    \/ RLeq(a, v) /\ RLeq(v, b)
    \/ RLeq(b, v) /\ RLeq(v, a)

\* C27: linear gap filling returns a series with no missing value that equals
\* the original series at every valid index, and whose value at each missing
\* index lies between the values of the nearest valid points on either side;
\* the removed blocks are interior, so every missing index has a valid point
\* on either side and no value is extrapolated.
C27_GapsFilledBetweenNeighbours ==
    Filled =>
        /\ Len(stm_linear) = Len(st)
        /\ \A i \in 1..Len(st) :
              /\ ~IsNaN(stm_linear[i])
              /\ ~IsNaN(stm[i]) => stm_linear[i] = st[i]
              /\ IsNaN(stm[i]) =>
                    /\ \E k \in 1..(i - 1) : ~IsNaN(stm[k])
                    /\ \E k \in (i + 1)..Len(stm) : ~IsNaN(stm[k])
                    /\ Between(stm_linear[i], st[ValidBefore(i)], st[ValidAfter(i)])

C27_Witness ==
    /\ Filled
    /\ arith = "float"
    /\ \E i \in 1..Len(st) :
          /\ IsNaN(stm[i])
          /\ RLess(st[ValidBefore(i)], stm_linear[i])
          /\ RLess(stm_linear[i], st[ValidAfter(i)])
          /\ ValidAfter(i) - ValidBefore(i) > 2

=============================================================================
